---------------------------- MODULE Spec2Model ----------------------------
(***************************************************************************)
(* A model of app.py: the Streamlit handler of the "Run Agents" button and *)
(* the three agents it runs in sequence (ResearchAgent with its            *)
(* WebBrowserTools, MarketAnalysisAgent, ResourceCollectorAgent).          *)
(*                                                                         *)
(* Python strings are sequences of one-character strings, so that `in`,    *)
(* lower(), strip(), replace() and json.loads() are computed character by  *)
(* character.  JSON values are tagged records [t |-> tag, v |-> payload];  *)
(* a Python dict is a function from its keys to its values.                *)
(***************************************************************************)
EXTENDS Integers, Sequences, FiniteSets, TLC

VARIABLES
    pc,            \* where the script is: idle, warned, scrape_get, fallback_try,
                   \* fallback_except, classify, generate, find, done, aborted
    company_name,  \* st.text_input("Company Name"), as submitted with the button
    constructed,   \* MultiAgentSystem() has been constructed in this script run
    warning,       \* st.warning(...) has been shown
    requested,     \* company_name_formatted, the page the reference lookup asked for
    response,      \* what requests.get returned (or that it raised)
    description,   \* the local `description` of scrape_company_info
    fallback_out,  \* the value the last successful generate_description_with_gemini returned
    company_info,  \* the dict research_company returns
    llm_text,      \* response.text of the use-case call
    use_cases,     \* what generate_use_cases returned
    results,       \* what MultiAgentSystem.run returned
    error,         \* the call whose exception left the script uncaught
    calls,         \* outbound calls issued in this script run
    trace          \* calls, returns and raises of the three steps of run(), in order

vars == <<pc, company_name, constructed, warning, requested, response, description,
          fallback_out, company_info, llm_text, use_cases, results, error, calls, trace>>

----------------------------------------------------------------------------
(* Bounds of the checked input spaces. *)

\* the descriptions given to the classifier are concatenations of at most MaxFrags fragments
MaxFrags == 2

\* the model replies given to the parser hold at most MaxElems elements
MaxElems == 2

----------------------------------------------------------------------------
(* Python str operations. *)

\* a variable that holds no string (unassigned, or None)
NoStr == <<"None">>

Upper == <<"A", "B", "C", "D", "E", "F", "G", "H", "I", "J", "K", "L", "M", "N", "O", "P", "Q", "R", "S", "T", "U", "V", "W", "X", "Y", "Z">>

Lowercase == <<"a", "b", "c", "d", "e", "f", "g", "h", "i", "j", "k", "l", "m", "n", "o", "p", "q", "r", "s", "t", "u", "v", "w", "x", "y", "z">>

LowerChar(c) ==
    IF \E k \in 1..Len(Upper) : Upper[k] = c
    THEN Lowercase[CHOOSE k \in 1..Len(Upper) : Upper[k] = c]
    ELSE c

\* str.lower()
Lower(s) == [i \in 1..Len(s) |-> LowerChar(s[i])]

\* `needle in haystack` for two str
Contains(haystack, needle) ==
    \E i \in 1..(Len(haystack) - Len(needle) + 1) :
        \A j \in 1..Len(needle) : haystack[i + j - 1] = needle[j]

\* str.replace(old, new) for one-character old and new
Replace(s, old, new) == [i \in 1..Len(s) |-> IF s[i] = old THEN new ELSE s[i]]

IsSpace(c) == c \in {" ", "\n", "\t", "\r"}

RECURSIVE LStrip(_)
LStrip(s) == IF s # <<>> /\ IsSpace(Head(s)) THEN LStrip(Tail(s)) ELSE s

RECURSIVE RStrip(_)
RStrip(s) == IF s # <<>> /\ IsSpace(s[Len(s)]) THEN RStrip(SubSeq(s, 1, Len(s) - 1)) ELSE s

\* str.strip()
Strip(s) == RStrip(LStrip(s))

\* truth value of a str in `if company_name:` and `not description`
IsTruthy(s) == s # <<>>

----------------------------------------------------------------------------
(* ResearchAgent._classify_industry *)

\* the chain with its first two tests exchanged
classify_industry_finance_first(text) ==
    LET d == Lower(text) IN
    IF Contains(d, <<"f", "i", "n", "a", "n", "c", "e">>) \/ Contains(d, <<"b", "a", "n", "k">>) THEN <<"F", "i", "n", "a", "n", "c", "e">>
    ELSE IF Contains(d, <<"a", "u", "t", "o", "m", "o", "t", "i", "v", "e">>) \/ Contains(d, <<"v", "e", "h", "i", "c", "l", "e">>) THEN <<"A", "u", "t", "o", "m", "o", "t", "i", "v", "e">>
    ELSE IF Contains(d, <<"e", "-", "c", "o", "m", "m", "e", "r", "c", "e">>) \/ Contains(d, <<"r", "e", "t", "a", "i", "l">>) THEN <<"E", "-", "c", "o", "m", "m", "e", "r", "c", "e", "/", "R", "e", "t", "a", "i", "l">>
    ELSE IF Contains(d, <<"t", "e", "c", "h", "n", "o", "l", "o", "g", "y">>) \/ Contains(d, <<"s", "o", "f", "t", "w", "a", "r", "e">>) THEN <<"T", "e", "c", "h", "n", "o", "l", "o", "g", "y">>
    ELSE IF Contains(d, <<"e", "n", "t", "e", "r", "t", "a", "i", "n", "m", "e", "n", "t">>) \/ Contains(d, <<"m", "e", "d", "i", "a">>) THEN <<"E", "n", "t", "e", "r", "t", "a", "i", "n", "m", "e", "n", "t", "/", "M", "e", "d", "i", "a">>
    ELSE IF Contains(d, <<"h", "e", "a", "l", "t", "h", "c", "a", "r", "e">>) \/ Contains(d, <<"m", "e", "d", "i", "c", "a", "l">>) THEN <<"H", "e", "a", "l", "t", "h", "c", "a", "r", "e">>
    ELSE <<"G", "e", "n", "e", "r", "a", "l", " ", "I", "n", "d", "u", "s", "t", "r", "y">>

classify_industry(text) ==
    LET d == Lower(text) IN
    IF Contains(d, <<"a", "u", "t", "o", "m", "o", "t", "i", "v", "e">>) \/ Contains(d, <<"v", "e", "h", "i", "c", "l", "e">>) THEN <<"A", "u", "t", "o", "m", "o", "t", "i", "v", "e">>
    ELSE IF Contains(d, <<"f", "i", "n", "a", "n", "c", "e">>) \/ Contains(d, <<"b", "a", "n", "k">>) THEN <<"F", "i", "n", "a", "n", "c", "e">>
    ELSE IF Contains(d, <<"e", "-", "c", "o", "m", "m", "e", "r", "c", "e">>) \/ Contains(d, <<"r", "e", "t", "a", "i", "l">>) THEN <<"E", "-", "c", "o", "m", "m", "e", "r", "c", "e", "/", "R", "e", "t", "a", "i", "l">>
    ELSE IF Contains(d, <<"t", "e", "c", "h", "n", "o", "l", "o", "g", "y">>) \/ Contains(d, <<"s", "o", "f", "t", "w", "a", "r", "e">>) THEN <<"T", "e", "c", "h", "n", "o", "l", "o", "g", "y">>
    ELSE IF Contains(d, <<"e", "n", "t", "e", "r", "t", "a", "i", "n", "m", "e", "n", "t">>) \/ Contains(d, <<"m", "e", "d", "i", "a">>) THEN <<"E", "n", "t", "e", "r", "t", "a", "i", "n", "m", "e", "n", "t", "/", "M", "e", "d", "i", "a">>
    ELSE IF Contains(d, <<"h", "e", "a", "l", "t", "h", "c", "a", "r", "e">>) \/ Contains(d, <<"m", "e", "d", "i", "c", "a", "l">>) THEN <<"H", "e", "a", "l", "t", "h", "c", "a", "r", "e">>
    ELSE <<"G", "e", "n", "e", "r", "a", "l", " ", "I", "n", "d", "u", "s", "t", "r", "y">>

----------------------------------------------------------------------------
(* JSON values and json.loads.  The decoder covers the JSON that the model *)
(* replies of this module are written in: arrays, objects, strings without *)
(* escapes, integers, null, true and false, with whitespace between tokens.*)

JNull == [t |-> "null", v |-> <<>>]

JBool(b) == [t |-> "bool", v |-> b]

JNum(n) == [t |-> "num", v |-> n]

JStr(s) == [t |-> "str", v |-> s]

JArr(elems) == [t |-> "arr", v |-> elems]

\* a dict: a function from its keys (str) to its values
JObj(f) == [t |-> "obj", v |-> f]

\* a variable that holds no value yet
NoJson == [t |-> "none", v |-> <<>>]

Digits == <<"0", "1", "2", "3", "4", "5", "6", "7", "8", "9">>

IsDigit(c) == \E k \in 1..Len(Digits) : Digits[k] = c

DigitVal(c) == (CHOOSE k \in 1..Len(Digits) : Digits[k] = c) - 1

Fail == [ok |-> FALSE, val |-> JNull, pos |-> 0]

Ok(v, p) == [ok |-> TRUE, val |-> v, pos |-> p]

\* json.decoder.WHITESPACE.match(s, i).end()
RECURSIVE SkipWs(_, _)
SkipWs(s, i) == IF i <= Len(s) /\ IsSpace(s[i]) THEN SkipWs(s, i + 1) ELSE i

\* the literal lit stands in s at position i
MatchAt(s, i, lit) ==
    /\ i + Len(lit) - 1 <= Len(s)
    /\ \A j \in 1..Len(lit) : s[i + j - 1] = lit[j]

\* position of the quote closing the string whose content starts at i; 0 when the
\* string is not closed or holds a control character (strict mode)
RECURSIVE ScanString(_, _)
ScanString(s, i) ==
    IF i > Len(s) THEN 0
    ELSE IF s[i] = "\"" THEN i
    ELSE IF s[i] \in {"\n", "\t", "\r"} THEN 0
    ELSE ScanString(s, i + 1)

\* s[i] is the opening quote
ParseString(s, i) ==
    LET j == ScanString(s, i + 1) IN
    IF j = 0 THEN Fail ELSE Ok(JStr(SubSeq(s, i + 1, j - 1)), j + 1)

\* the digits from i on: [val, pos]
RECURSIVE ScanDigits(_, _, _)
ScanDigits(s, i, acc) ==
    IF i <= Len(s) /\ IsDigit(s[i])
    THEN ScanDigits(s, i + 1, 10 * acc + DigitVal(s[i]))
    ELSE [val |-> acc, pos |-> i]

\* NUMBER_RE's integer part: -?(0|[1-9][0-9]*)
ParseNumber(s, i) ==
    LET neg == s[i] = "-"
        k == IF neg THEN i + 1 ELSE i
    IN  IF k > Len(s) \/ ~IsDigit(s[k]) THEN Fail
        ELSE IF s[k] = "0" THEN Ok(JNum(0), k + 1)
        ELSE LET d == ScanDigits(s, k, 0)
             IN  Ok(JNum(IF neg THEN 0 - d.val ELSE d.val), d.pos)

RECURSIVE ParseValue(_, _)
RECURSIVE ParseElements(_, _, _)
RECURSIVE ParseMembers(_, _, _)

\* i is the start of an element of an array whose earlier elements are acc
ParseElements(s, i, acc) ==
    LET r == ParseValue(s, i) IN
    IF ~r.ok THEN Fail
    ELSE LET j == SkipWs(s, r.pos)
             acc2 == Append(acc, r.val)
         IN  IF j > Len(s) THEN Fail
             ELSE IF s[j] = "]" THEN Ok(JArr(acc2), j + 1)
             ELSE IF s[j] = "," THEN ParseElements(s, SkipWs(s, j + 1), acc2)
             ELSE Fail

\* i is the start of a key of an object whose earlier members are acc;
\* a key given twice keeps its last value
ParseMembers(s, i, acc) ==
    IF i > Len(s) \/ s[i] # "\"" THEN Fail
    ELSE LET key == ParseString(s, i) IN
    IF ~key.ok THEN Fail
    ELSE LET c == SkipWs(s, key.pos) IN
    IF c > Len(s) \/ s[c] # ":" THEN Fail
    ELSE LET r == ParseValue(s, SkipWs(s, c + 1)) IN
    IF ~r.ok THEN Fail
    ELSE LET j == SkipWs(s, r.pos)
             acc2 == (key.val.v :> r.val) @@ acc
         IN  IF j > Len(s) THEN Fail
             ELSE IF s[j] = "}" THEN Ok(JObj(acc2), j + 1)
             ELSE IF s[j] = "," THEN ParseMembers(s, SkipWs(s, j + 1), acc2)
             ELSE Fail

\* JSONDecoder.scan_once at position i
ParseValue(s, i) ==
    IF i > Len(s) THEN Fail
    ELSE IF s[i] = "\"" THEN ParseString(s, i)
    ELSE IF s[i] = "[" THEN
        LET j == SkipWs(s, i + 1) IN
        IF j <= Len(s) /\ s[j] = "]" THEN Ok(JArr(<<>>), j + 1)
        ELSE ParseElements(s, j, <<>>)
    ELSE IF s[i] = "{" THEN
        LET j == SkipWs(s, i + 1) IN
        IF j <= Len(s) /\ s[j] = "}" THEN Ok(JObj(<<>>), j + 1)
        ELSE ParseMembers(s, j, <<>>)
    ELSE IF MatchAt(s, i, <<"n", "u", "l", "l">>) THEN Ok(JNull, i + 4)
    ELSE IF MatchAt(s, i, <<"t", "r", "u", "e">>) THEN Ok(JBool(TRUE), i + 4)
    ELSE IF MatchAt(s, i, <<"f", "a", "l", "s", "e">>) THEN Ok(JBool(FALSE), i + 5)
    ELSE IF IsDigit(s[i]) \/ s[i] = "-" THEN ParseNumber(s, i)
    ELSE Fail

\* json.loads(s): the value, or ok = FALSE where it raises JSONDecodeError
JsonLoads(s) ==
    LET r == ParseValue(s, SkipWs(s, 1)) IN
    IF r.ok /\ SkipWs(s, r.pos) = Len(s) + 1
    THEN [ok |-> TRUE, val |-> r.val]
    ELSE [ok |-> FALSE, val |-> JNull]

----------------------------------------------------------------------------
(* MarketAnalysisAgent._parse_response *)

\* a _parse_response whose fallback strips the reply
parse_response_stripped(response_content) ==
    LET r == JsonLoads(response_content) IN
    IF r.ok THEN r.val
    ELSE JArr(<<JObj(<<"u", "s", "e", "_", "c", "a", "s", "e", "_", "s", "u", "m", "m", "a", "r", "y">> :> JStr(Strip(response_content)))>>)

parse_response(response_content) ==
    LET r == JsonLoads(response_content) IN
    IF r.ok THEN r.val
    ELSE JArr(<<JObj(<<"u", "s", "e", "_", "c", "a", "s", "e", "_", "s", "u", "m", "m", "a", "r", "y">> :> JStr(response_content))>>)

----------------------------------------------------------------------------
(* ResourceCollectorAgent.find_resources *)

\* some order of the elements of a finite set
RECURSIVE SetToSeq(_)
SetToSeq(S) ==
    IF S = {} THEN <<>>
    ELSE LET x == CHOOSE y \in S : TRUE IN <<x>> \o SetToSeq(S \ {x})

\* `for case in use_cases` can start: use_cases is a list, a dict or a str
IsIterable(value) == value.t \in {"arr", "obj", "str"}

\* what `for case in use_cases` yields: the elements of a list, the keys of a
\* dict, the characters of a str
IterItems(value) ==
    IF value.t = "arr" THEN value.v
    ELSE IF value.t = "obj" THEN [i \in 1..Cardinality(DOMAIN value.v) |->
                                     JStr(SetToSeq(DOMAIN value.v)[i])]
    ELSE [i \in 1..Len(value.v) |-> JStr(<<value.v[i]>>)]

\* dict.get(key, default)
DictGet(d, key, default) == IF key \in DOMAIN d THEN d[key] ELSE default

\* case.get("use_case", case.get("use_case_summary", "general"))
Title(case) ==
    DictGet(case.v, <<"u", "s", "e", "_", "c", "a", "s", "e">>, DictGet(case.v, <<"u", "s", "e", "_", "c", "a", "s", "e", "_", "s", "u", "m", "m", "a", "r", "y">>, JStr(<<"g", "e", "n", "e", "r", "a", "l">>)))

\* links that interpolate the title as it is
LinksUnescaped(title) ==
    [datasets |-> << <<"h", "t", "t", "p", "s", ":", "/", "/", "k", "a", "g", "g", "l", "e", ".", "c", "o", "m", "/", "s", "e", "a", "r", "c", "h", "?", "q", "=">> \o title >>,
     models |-> << <<"h", "t", "t", "p", "s", ":", "/", "/", "h", "u", "g", "g", "i", "n", "g", "f", "a", "c", "e", ".", "c", "o", "/", "m", "o", "d", "e", "l", "s", "?", "s", "e", "a", "r", "c", "h", "=">> \o title >>,
     github_projects |-> << <<"h", "t", "t", "p", "s", ":", "/", "/", "g", "i", "t", "h", "u", "b", ".", "c", "o", "m", "/", "s", "e", "a", "r", "c", "h", "?", "q", "=">> \o title >>]

\* the value stored under a title
Links(title) ==
    [datasets |-> << <<"h", "t", "t", "p", "s", ":", "/", "/", "k", "a", "g", "g", "l", "e", ".", "c", "o", "m", "/", "s", "e", "a", "r", "c", "h", "?", "q", "=">> \o Replace(title, " ", "+") >>,
     models |-> << <<"h", "t", "t", "p", "s", ":", "/", "/", "h", "u", "g", "g", "i", "n", "g", "f", "a", "c", "e", ".", "c", "o", "/", "m", "o", "d", "e", "l", "s", "?", "s", "e", "a", "r", "c", "h", "=">> \o Replace(title, " ", "+") >>,
     github_projects |-> << <<"h", "t", "t", "p", "s", ":", "/", "/", "g", "i", "t", "h", "u", "b", ".", "c", "o", "m", "/", "s", "e", "a", "r", "c", "h", "?", "q", "=">> \o Replace(title, " ", "+") >>]

\* the loop from its i-th item on; raised where case.get or title.replace
\* raises AttributeError (case is no dict, title is no str)
RECURSIVE FindLoop(_, _, _)
FindLoop(items, i, resources) ==
    IF i > Len(items) THEN [raised |-> FALSE, value |-> resources]
    ELSE IF items[i].t # "obj" THEN [raised |-> TRUE, value |-> <<>>]
    ELSE LET title == Title(items[i]) IN
         IF title.t # "str" THEN [raised |-> TRUE, value |-> <<>>]
         ELSE FindLoop(items, i + 1, (title.v :> Links(title.v)) @@ resources)

\* find_resources(use_cases): the dict it returns, or raised
find_resources(value) ==
    IF ~IsIterable(value) THEN [raised |-> TRUE, value |-> <<>>]
    ELSE FindLoop(IterItems(value), 1, <<>>)

----------------------------------------------------------------------------
(* The inputs: what the user types and what the two external services      *)
(* answer.                                                                 *)

CompanyNames == { <<>>, <<"A", "c", "m", "e">>, <<"A", "c", "m", "e", " ", "M", "o", "t", "o", "r", " ", "C", "o">> }

\* a response of the reference lookup: requests.get raised, or an HTTP response
\* whose body is no JSON, JSON without "extract", or JSON with "extract"
NoResponse == [kind |-> "none", status |-> 0, body |-> "none", extract |-> NoStr]

RefExtracts ==
    { <<>>, <<"A", "c", "m", "e", " ", "m", "a", "k", "e", "s", " ", "w", "i", "d", "g", "e", "t", "s", ".">>, <<"A", "c", "m", "e", " ", "m", "a", "y", " ", "r", "e", "f", "e", "r", " ", "t", "o", ":">>, <<"A", "c", "m", "e", " ", "B", "a", "n", "k", " ", "m", "a", "k", "e", "s", " ", "s", "o", "f", "t", "w", "a", "r", "e", ".">> }

ReferenceResponses ==
    {[kind |-> "exception", status |-> 0, body |-> "none", extract |-> NoStr]}
    \cup {[kind |-> "http", status |-> st, body |-> b, extract |-> NoStr] :
             st \in {200, 404}, b \in {"not_json", "no_extract"}}
    \cup {[kind |-> "http", status |-> st, body |-> "extract", extract |-> e] :
             st \in {200, 404}, e \in RefExtracts}

\* a reply of the generative model: it raised, or response.text
GeminiFailure == [ok |-> FALSE, text |-> NoStr]

GeminiReplies(texts) == {GeminiFailure} \cup {[ok |-> TRUE, text |-> t] : t \in texts}

DescriptionTexts == { <<" ", "A", "c", "m", "e", " ", "b", "u", "i", "l", "d", "s", " ", "v", "e", "h", "i", "c", "l", "e", "s", ".", "\n">>, <<"A", "c", "m", "e", " ", "i", "s", " ", "a", " ", "r", "e", "t", "a", "i", "l", " ", "b", "a", "n", "k", ".">> }

UseCaseTexts ==
    { <<"[", "{", "\"", "u", "s", "e", "_", "c", "a", "s", "e", "\"", ":", "\"", "A", " ", "B", "\"", ",", "\"", "d", "e", "s", "c", "r", "i", "p", "t", "i", "o", "n", "\"", ":", "\"", "x", "\"", ",", "\"", "f", "e", "a", "s", "i", "b", "i", "l", "i", "t", "y", "\"", ":", "\"", "H", "\"", "}", "]">>,
      <<"S", "o", "r", "r", "y", ",", " ", "I", " ", "c", "a", "n", "'", "t">>,
      <<"[", "1", "]">> }

----------------------------------------------------------------------------
(* The script run. *)

NoCompanyInfo ==
    [company |-> NoStr, industry |-> NoStr, offerings |-> <<>>,
     strategic_focus |-> <<>>, description |-> NoStr]

NoResults ==
    [present |-> FALSE, company_info |-> NoCompanyInfo, ai_use_cases |-> NoJson,
     resource_assets |-> <<>>]

NoCalls == [reference |-> 0, description |-> 0, description_failed |-> 0, use_cases |-> 0]

Call(step) == <<"call", step>>

Return(step) == <<"return", step>>

Raise(step) == <<"raise", step>>

\* the script waits for the button, with the text input empty
Init ==
    /\ pc = "idle"
    /\ company_name = <<>>
    /\ constructed = FALSE
    /\ warning = FALSE
    /\ requested = NoStr
    /\ response = NoResponse
    /\ description = NoStr
    /\ fallback_out = NoStr
    /\ company_info = NoCompanyInfo
    /\ llm_text = NoStr
    /\ use_cases = NoJson
    /\ results = NoResults
    /\ error = "none"
    /\ calls = NoCalls
    /\ trace = <<>>

\* a handler that runs the agents whatever the text input holds
ButtonUnchecked ==
    /\ pc = "idle"
    /\ \E name \in CompanyNames :
        /\ company_name' = name
        /\ constructed' = TRUE
        /\ trace' = <<Call("research_company")>>
        /\ pc' = "scrape_get"
        /\ UNCHANGED warning
    /\ UNCHANGED <<requested, response, description, fallback_out, company_info,
                   llm_text, use_cases, results, error, calls>>

\* st.button("Run Agents") pressed: `if company_name:` constructs the system and
\* enters run() -> research_company -> scrape_company_info, else warns
Button ==
    /\ pc = "idle"
    /\ \E name \in CompanyNames :
        /\ company_name' = name
        /\ IF IsTruthy(name)
           THEN /\ constructed' = TRUE
                /\ trace' = <<Call("research_company")>>
                /\ pc' = "scrape_get"
                /\ UNCHANGED warning
           ELSE /\ warning' = TRUE
                /\ pc' = "warned"
                /\ UNCHANGED <<constructed, trace>>
    /\ UNCHANGED <<requested, response, description, fallback_out, company_info,
                   llm_text, use_cases, results, error, calls>>

\* a test without the disambiguation marker
ExtractUsableIgnoringMarker(extract) == IsTruthy(extract)

\* a test with the marker condition inverted
ExtractUsableOnlyWithMarker(extract) ==
    IsTruthy(extract) /\ Contains(extract, <<"m", "a", "y", " ", "r", "e", "f", "e", "r", " ", "t", "o", ":">>)

\* the negation of `not description or "may refer to:" in description`
ExtractUsable(extract) ==
    ~(~IsTruthy(extract) \/ Contains(extract, <<"m", "a", "y", " ", "r", "e", "f", "e", "r", " ", "t", "o", ":">>))

\* data.get("extract", "")
ExtractOf(r) == IF r.body = "extract" THEN r.extract ELSE <<>>

\* requests.get(...) and what the try block does with its outcome, up to the
\* call of the fallback
ReferenceLookup ==
    /\ pc = "scrape_get"
    /\ requested' = Replace(company_name, " ", "_")
    /\ calls' = [calls EXCEPT !.reference = @ + 1]
    /\ \E r \in ReferenceResponses :
        /\ response' = r
        /\ IF r.kind = "exception" \/ (r.status = 200 /\ r.body = "not_json")
           THEN \* requests.get or response.json() raised: the except block
                /\ pc' = "fallback_except"
                /\ UNCHANGED description
           ELSE IF r.status = 200 /\ ExtractUsable(ExtractOf(r))
           THEN /\ description' = ExtractOf(r)
                /\ pc' = "classify"
           ELSE \* the fallback of line 31 or of line 33, inside the try block
                /\ pc' = "fallback_try"
                /\ UNCHANGED description
    /\ UNCHANGED <<company_name, constructed, warning, fallback_out, company_info,
                   llm_text, use_cases, results, error, trace>>

\* generate_description_with_gemini returns response.text.strip()
generate_description_with_gemini(reply) == Strip(reply.text)

\* generate_description_with_gemini called inside the try block (lines 31, 33):
\* what it raises is caught by `except Exception`
FallbackInTry ==
    /\ pc = "fallback_try"
    /\ \E reply \in GeminiReplies(DescriptionTexts) :
        IF reply.ok
        THEN /\ description' = generate_description_with_gemini(reply)
             /\ fallback_out' = generate_description_with_gemini(reply)
             /\ calls' = [calls EXCEPT !.description = @ + 1]
             /\ pc' = "classify"
        ELSE /\ calls' = [calls EXCEPT !.description = @ + 1,
                                       !.description_failed = @ + 1]
             /\ pc' = "fallback_except"
             /\ UNCHANGED <<description, fallback_out>>
    /\ UNCHANGED <<company_name, constructed, warning, requested, response,
                   company_info, llm_text, use_cases, results, error, trace>>

\* generate_description_with_gemini called in the except block (line 35): what
\* it raises leaves scrape_company_info, research_company, run and the script
FallbackInExcept ==
    /\ pc = "fallback_except"
    /\ \E reply \in GeminiReplies(DescriptionTexts) :
        IF reply.ok
        THEN /\ description' = generate_description_with_gemini(reply)
             /\ fallback_out' = generate_description_with_gemini(reply)
             /\ calls' = [calls EXCEPT !.description = @ + 1]
             /\ pc' = "classify"
             /\ UNCHANGED <<error, trace>>
        ELSE /\ calls' = [calls EXCEPT !.description = @ + 1,
                                       !.description_failed = @ + 1]
             /\ error' = "generate_description_with_gemini"
             /\ trace' = Append(trace, Raise("research_company"))
             /\ pc' = "aborted"
             /\ UNCHANGED <<description, fallback_out>>
    /\ UNCHANGED <<company_name, constructed, warning, requested, response,
                   company_info, llm_text, use_cases, results>>

\* scrape_company_info returns; research_company classifies and returns
ResearchCompany ==
    /\ pc = "classify"
    /\ company_info' =
          [company |-> company_name,
           industry |-> classify_industry(description),
           offerings |-> << <<"P", "r", "o", "d", "u", "c", "t", " ", "A">>, <<"P", "r", "o", "d", "u", "c", "t", " ", "B">> >>,
           strategic_focus |-> << <<"F", "o", "c", "u", "s", " ", "A", "r", "e", "a", " ", "1">>, <<"F", "o", "c", "u", "s", " ", "A", "r", "e", "a", " ", "2">> >>,
           description |-> description]
    /\ trace' = Append(trace, Return("research_company"))
    /\ pc' = "generate"
    /\ UNCHANGED <<company_name, constructed, warning, requested, response,
                   description, fallback_out, llm_text, use_cases, results, error, calls>>

\* a generate_use_cases whose failed call yields no use cases instead of raising
GenerateUseCasesSwallowing(texts) ==
    /\ pc = "generate"
    /\ calls' = [calls EXCEPT !.use_cases = @ + 1]
    /\ \E reply \in GeminiReplies(texts) :
        /\ llm_text' = reply.text
        /\ use_cases' = IF reply.ok THEN parse_response(reply.text) ELSE JArr(<<>>)
        /\ trace' = trace \o << Call("generate_use_cases"),
                                IF reply.ok THEN Return("generate_use_cases")
                                            ELSE Raise("generate_use_cases") >>
        /\ pc' = "find"
        /\ UNCHANGED error
    /\ UNCHANGED <<company_name, constructed, warning, requested, response,
                   description, fallback_out, company_info, results>>

\* generate_use_cases: the model call, then _parse_response on its text; what
\* the call raises leaves run and the script
GenerateUseCases(texts) ==
    /\ pc = "generate"
    /\ calls' = [calls EXCEPT !.use_cases = @ + 1]
    /\ \E reply \in GeminiReplies(texts) :
        IF reply.ok
        THEN /\ llm_text' = reply.text
             /\ use_cases' = parse_response(reply.text)
             /\ trace' = trace \o << Call("generate_use_cases"),
                                     Return("generate_use_cases") >>
             /\ pc' = "find"
             /\ UNCHANGED error
        ELSE /\ error' = "generate_content"
             /\ trace' = trace \o << Call("generate_use_cases"),
                                     Raise("generate_use_cases") >>
             /\ pc' = "aborted"
             /\ UNCHANGED <<llm_text, use_cases>>
    /\ UNCHANGED <<company_name, constructed, warning, requested, response,
                   description, fallback_out, company_info, results>>

\* find_resources, then run() returns the result record
FindResources ==
    /\ pc = "find"
    /\ LET r == find_resources(use_cases) IN
       IF r.raised
       THEN /\ error' = "find_resources"
            /\ trace' = trace \o << Call("find_resources"), Raise("find_resources") >>
            /\ pc' = "aborted"
            /\ UNCHANGED results
       ELSE /\ results' = [present |-> TRUE, company_info |-> company_info,
                           ai_use_cases |-> use_cases, resource_assets |-> r.value]
            /\ trace' = trace \o << Call("find_resources"), Return("find_resources") >>
            /\ pc' = "done"
            /\ UNCHANGED error
    /\ UNCHANGED <<company_name, constructed, warning, requested, response,
                   description, fallback_out, company_info, llm_text, use_cases, calls>>

\* the next interaction reruns the script from its first line
Rerun ==
    /\ pc \in {"warned", "done", "aborted"}
    /\ pc' = "idle"
    /\ company_name' = <<>>
    /\ constructed' = FALSE
    /\ warning' = FALSE
    /\ requested' = NoStr
    /\ response' = NoResponse
    /\ description' = NoStr
    /\ fallback_out' = NoStr
    /\ company_info' = NoCompanyInfo
    /\ llm_text' = NoStr
    /\ use_cases' = NoJson
    /\ results' = NoResults
    /\ error' = "none"
    /\ calls' = NoCalls
    /\ trace' = <<>>

Next ==
    \/ Button
    \/ ReferenceLookup
    \/ FallbackInTry
    \/ FallbackInExcept
    \/ ResearchCompany
    \/ GenerateUseCases(UseCaseTexts)
    \/ FindResources
    \/ Rerun

Spec == Init /\ [][Next]_vars

----------------------------------------------------------------------------
(* The classifier over a space of descriptions: the script at the point    *)
(* where scrape_company_info has returned a description that the fallback  *)
(* wrote after the reference lookup raised.                                *)

DescriptionFragments ==
    { <<"a", "u", "t", "o", "m", "o", "t", "i", "v", "e">>, <<"v", "e", "h", "i", "c", "l", "e">>, <<"f", "i", "n", "a", "n", "c", "e">>, <<"b", "a", "n", "k">>, <<"e", "-", "c", "o", "m", "m", "e", "r", "c", "e">>, <<"r", "e", "t", "a", "i", "l">>,
      <<"t", "e", "c", "h", "n", "o", "l", "o", "g", "y">>, <<"s", "o", "f", "t", "w", "a", "r", "e">>, <<"e", "n", "t", "e", "r", "t", "a", "i", "n", "m", "e", "n", "t">>, <<"m", "e", "d", "i", "a">>, <<"h", "e", "a", "l", "t", "h", "c", "a", "r", "e">>, <<"m", "e", "d", "i", "c", "a", "l">>,
      <<"B", "a", "n", "k">>, <<"S", "o", "f", "t", "W", "a", "r", "e">>, <<"A", "c", "m", "e", " ">>, <<"m", "e", "d", "i">>, <<"a">> }

RECURSIVE Concatenations(_, _)
Concatenations(fragments, n) ==
    IF n = 0 THEN {<<>>}
    ELSE Concatenations(fragments, n - 1)
         \cup {t \o f : t \in Concatenations(fragments, n - 1), f \in fragments}

ClassifierInputs == {Strip(t) : t \in Concatenations(DescriptionFragments, MaxFrags)}

InitClassify ==
    /\ pc = "classify"
    /\ company_name = <<"A", "c", "m", "e">>
    /\ constructed = TRUE
    /\ warning = FALSE
    /\ requested = <<"A", "c", "m", "e">>
    /\ response = [kind |-> "exception", status |-> 0, body |-> "none", extract |-> NoStr]
    /\ description \in ClassifierInputs
    /\ fallback_out = description
    /\ company_info = NoCompanyInfo
    /\ llm_text = NoStr
    /\ use_cases = NoJson
    /\ results = NoResults
    /\ error = "none"
    /\ calls = [reference |-> 1, description |-> 1, description_failed |-> 0,
                use_cases |-> 0]
    /\ trace = <<Call("research_company")>>

NextClassify == ResearchCompany

SpecClassify == InitClassify /\ [][NextClassify]_vars

----------------------------------------------------------------------------
(* The parser and the resource linker over a space of model replies: the   *)
(* script at the point where research_company has returned.                *)

ReplyElements ==
    { <<"{", "\"", "u", "s", "e", "_", "c", "a", "s", "e", "\"", ":", "\"", "A", " ", "B", "\"", ",", "\"", "d", "e", "s", "c", "r", "i", "p", "t", "i", "o", "n", "\"", ":", "\"", "x", "\"", ",", "\"", "f", "e", "a", "s", "i", "b", "i", "l", "i", "t", "y", "\"", ":", "\"", "H", "\"", "}">>,
      <<"{", "\"", "u", "s", "e", "_", "c", "a", "s", "e", "_", "s", "u", "m", "m", "a", "r", "y", "\"", ":", "\"", "C", " ", "D", "\"", "}">>,
      <<"{", "\"", "u", "s", "e", "_", "c", "a", "s", "e", "_", "s", "u", "m", "m", "a", "r", "y", "\"", ":", "\"", "C", " ", "D", "\"", ",", "\"", "u", "s", "e", "_", "c", "a", "s", "e", "\"", ":", "\"", "E", " ", "F", "\"", "}">>,
      <<"{", "\"", "d", "e", "s", "c", "r", "i", "p", "t", "i", "o", "n", "\"", ":", "\"", "x", "\"", "}">>,
      <<"{", "\"", "u", "s", "e", "_", "c", "a", "s", "e", "\"", ":", "1", "}">>,
      <<"1">>,
      <<"\"", "A", " ", "B", "\"">>,
      <<"S", "o", "r", "r", "y", ",", " ", "I", " ", "c", "a", "n", "'", "t">> }

\* what stands before and after the elements: an array, an array in
\* whitespace, nothing, a markdown fence, an array cut short, an object
ReplyWrappers ==
    { << <<"[">>, <<"]">> >>,
      << <<" ", "[", " ">>, <<" ", "]", "\n">> >>,
      << <<>>, <<>> >>,
      << <<"~", "~", "~", "j", "s", "o", "n", "\n", "[">>, <<"]", "\n", "~", "~", "~">> >>,
      << <<"[">>, <<>> >>,
      << <<"{", "\"", "r", "\"", ":", "[">>, <<"]", "}">> >> }

RECURSIVE ElementRuns(_)
ElementRuns(n) ==
    IF n = 0 THEN {<<>>}
    ELSE ElementRuns(n - 1)
         \cup {Append(q, e) : q \in ElementRuns(n - 1), e \in ReplyElements}

RECURSIVE Join(_)
Join(q) ==
    IF q = <<>> THEN <<>>
    ELSE IF Len(q) = 1 THEN q[1]
    ELSE q[1] \o <<",">> \o Join(Tail(q))

ParserInputs == {w[1] \o Join(q) \o w[2] : w \in ReplyWrappers, q \in ElementRuns(MaxElems)}

InitUseCases ==
    /\ pc = "generate"
    /\ company_name = <<"A", "c", "m", "e">>
    /\ constructed = TRUE
    /\ warning = FALSE
    /\ requested = <<"A", "c", "m", "e">>
    /\ response = [kind |-> "http", status |-> 200, body |-> "extract",
                   extract |-> <<"A", "c", "m", "e", " ", "m", "a", "k", "e", "s", " ", "w", "i", "d", "g", "e", "t", "s", ".">>]
    /\ description = <<"A", "c", "m", "e", " ", "m", "a", "k", "e", "s", " ", "w", "i", "d", "g", "e", "t", "s", ".">>
    /\ fallback_out = NoStr
    /\ company_info =
          [company |-> <<"A", "c", "m", "e">>,
           industry |-> <<"G", "e", "n", "e", "r", "a", "l", " ", "I", "n", "d", "u", "s", "t", "r", "y">>,
           offerings |-> << <<"P", "r", "o", "d", "u", "c", "t", " ", "A">>, <<"P", "r", "o", "d", "u", "c", "t", " ", "B">> >>,
           strategic_focus |-> << <<"F", "o", "c", "u", "s", " ", "A", "r", "e", "a", " ", "1">>, <<"F", "o", "c", "u", "s", " ", "A", "r", "e", "a", " ", "2">> >>,
           description |-> <<"A", "c", "m", "e", " ", "m", "a", "k", "e", "s", " ", "w", "i", "d", "g", "e", "t", "s", ".">>]
    /\ llm_text = NoStr
    /\ use_cases = NoJson
    /\ results = NoResults
    /\ error = "none"
    /\ calls = [reference |-> 1, description |-> 0, description_failed |-> 0,
                use_cases |-> 0]
    /\ trace = <<Call("research_company"), Return("research_company")>>

NextUseCases ==
    \/ GenerateUseCases(ParserInputs)
    \/ FindResources

SpecUseCases == InitUseCases /\ [][NextUseCases]_vars

----------------------------------------------------------------------------
(* The properties. *)

\* the six keyword pairs in their priority order
IndustryTable ==
    << [label |-> <<"A", "u", "t", "o", "m", "o", "t", "i", "v", "e">>, keywords |-> { <<"a", "u", "t", "o", "m", "o", "t", "i", "v", "e">>, <<"v", "e", "h", "i", "c", "l", "e">> }],
       [label |-> <<"F", "i", "n", "a", "n", "c", "e">>, keywords |-> { <<"f", "i", "n", "a", "n", "c", "e">>, <<"b", "a", "n", "k">> }],
       [label |-> <<"E", "-", "c", "o", "m", "m", "e", "r", "c", "e", "/", "R", "e", "t", "a", "i", "l">>, keywords |-> { <<"e", "-", "c", "o", "m", "m", "e", "r", "c", "e">>, <<"r", "e", "t", "a", "i", "l">> }],
       [label |-> <<"T", "e", "c", "h", "n", "o", "l", "o", "g", "y">>, keywords |-> { <<"t", "e", "c", "h", "n", "o", "l", "o", "g", "y">>, <<"s", "o", "f", "t", "w", "a", "r", "e">> }],
       [label |-> <<"E", "n", "t", "e", "r", "t", "a", "i", "n", "m", "e", "n", "t", "/", "M", "e", "d", "i", "a">>, keywords |-> { <<"e", "n", "t", "e", "r", "t", "a", "i", "n", "m", "e", "n", "t">>, <<"m", "e", "d", "i", "a">> }],
       [label |-> <<"H", "e", "a", "l", "t", "h", "c", "a", "r", "e">>, keywords |-> { <<"h", "e", "a", "l", "t", "h", "c", "a", "r", "e">>, <<"m", "e", "d", "i", "c", "a", "l">> }] >>

PairOccurs(i, text) == \E k \in IndustryTable[i].keywords : Contains(Lower(text), k)

FirstPair(text) ==
    CHOOSE i \in 1..Len(IndustryTable) :
        PairOccurs(i, text) /\ \A j \in 1..(i - 1) : ~PairOccurs(j, text)

\* C1: the industry research_company returns is the label of the first keyword
\* pair, in the order Automotive, Finance, E-commerce/Retail, Technology,
\* Entertainment/Media, Healthcare, with a keyword occurring in the lower-cased
\* description; it is "General Industry" exactly when none of the twelve
\* keywords occurs; it is always one of the seven labels.
C1_FirstMatchWins ==
    pc = "generate" =>
        LET d == company_info.description
            some == \E i \in 1..Len(IndustryTable) : PairOccurs(i, d)
        IN  /\ some => company_info.industry = IndustryTable[FirstPair(d)].label
            /\ ~some <=> company_info.industry = <<"G", "e", "n", "e", "r", "a", "l", " ", "I", "n", "d", "u", "s", "t", "r", "y">>
            /\ company_info.industry \in
                  {IndustryTable[i].label : i \in 1..Len(IndustryTable)}
                  \cup { <<"G", "e", "n", "e", "r", "a", "l", " ", "I", "n", "d", "u", "s", "t", "r", "y">> }

\* a description with "Bank" and "software" has been classified as Finance
C1_Witness ==
    /\ pc = "generate"
    /\ company_info.description = <<"B", "a", "n", "k", "s", "o", "f", "t", "w", "a", "r", "e">>
    /\ company_info.industry = <<"F", "i", "n", "a", "n", "c", "e">>

\* a reference response with status 200 and a usable extract
GoodResponse ==
    /\ response.kind = "http"
    /\ response.status = 200
    /\ response.body = "extract"
    /\ response.extract # <<>>
    /\ ~Contains(response.extract, <<"m", "a", "y", " ", "r", "e", "f", "e", "r", " ", "t", "o", ":">>)

\* C2: when the reference lookup answers 200 with a non-empty extract without
\* "may refer to:", the description is that extract and
\* generate_description_with_gemini is neither called nor about to be.
C2_ExtractUsedWithoutFallback ==
    GoodResponse =>
        /\ description = response.extract
        /\ calls.description = 0
        /\ pc \notin {"fallback_try", "fallback_except"}
        /\ company_info.description \in {NoStr, response.extract}

\* the run completed on the extract "Acme makes widgets."
C2_Witness ==
    /\ pc = "done"
    /\ response.status = 200
    /\ response.extract = <<"A", "c", "m", "e", " ", "m", "a", "k", "e", "s", " ", "w", "i", "d", "g", "e", "t", "s", ".">>
    /\ results.company_info.description = <<"A", "c", "m", "e", " ", "m", "a", "k", "e", "s", " ", "w", "i", "d", "g", "e", "t", "s", ".">>
    /\ calls.description = 0

\* the four cases in which the lookup falls back
FallbackCase ==
    \/ response.kind = "exception"
    \/ response.kind = "http" /\ response.status # 200
    \/ response.kind = "http" /\ response.body = "no_extract"
    \/ response.kind = "http" /\ response.body = "extract" /\ response.extract = <<>>
    \/ /\ response.kind = "http"
       /\ response.body = "extract"
       /\ Contains(response.extract, <<"m", "a", "y", " ", "r", "e", "f", "e", "r", " ", "t", "o", ":">>)

\* scrape_company_info has returned a description in this script run
LookupReturned ==
    \/ pc \in {"classify", "generate", "find", "done"}
    \/ pc = "aborted" /\ error \in {"generate_content", "find_resources"}

\* C3: on a non-200 status, a transport exception, an empty or missing extract
\* or an extract with "may refer to:", generate_description_with_gemini is
\* called; when a call of it succeeds its output is the description returned;
\* and the lookup fails only by the failure of the generative call.
C3_FallbackOnReferenceFailure ==
    FallbackCase =>
        /\ pc \in {"fallback_try", "fallback_except"} \/ calls.description >= 1
        /\ LookupReturned =>
              /\ fallback_out # NoStr
              /\ description = fallback_out
              /\ calls.description > calls.description_failed
        /\ pc = "aborted" /\ ~LookupReturned =>
              /\ error = "generate_description_with_gemini"
              /\ calls.description_failed >= 1

\* the run completed on the fallback's text after requests.get raised
C3_Witness ==
    /\ pc = "done"
    /\ response.kind = "exception"
    /\ results.company_info.description = <<"A", "c", "m", "e", " ", "b", "u", "i", "l", "d", "s", " ", "v", "e", "h", "i", "c", "l", "e", "s", ".">>
    /\ results.company_info.industry = <<"A", "u", "t", "o", "m", "o", "t", "i", "v", "e">>

\* C4: in a run the reference lookup, the generative description call and the
\* generative use-case call are each issued at most once: at most 3 calls.
C4_NoCallRepeated ==
    /\ calls.reference <= 1
    /\ calls.description <= 1
    /\ calls.use_cases <= 1
    /\ calls.reference + calls.description + calls.use_cases <= 3

\* C5: once a call of generate_description_with_gemini has failed and the lookup
\* is over, the failure has left the script and there is no description.
C5_FallbackFailurePropagates ==
    calls.description_failed >= 1 /\ pc # "fallback_except" =>
        /\ pc = "aborted"
        /\ error = "generate_description_with_gemini"
        /\ description = NoStr

\* generate_use_cases has returned in this script run
GenerateReturned ==
    \/ pc \in {"find", "done"}
    \/ pc = "aborted" /\ error = "find_resources"

\* C6: generate_use_cases returns the decoded value when the whole reply is
\* valid JSON, and otherwise the one-element list holding the reply unchanged
\* under use_case_summary; a reply received always yields a value.
C6_ParseOrSummary ==
    /\ GenerateReturned =>
          LET r == JsonLoads(llm_text) IN
          /\ r.ok => use_cases = r.val
          /\ ~r.ok => /\ use_cases.t = "arr"
                      /\ Len(use_cases.v) = 1
                      /\ use_cases.v[1].t = "obj"
                      /\ DOMAIN use_cases.v[1].v = { <<"u", "s", "e", "_", "c", "a", "s", "e", "_", "s", "u", "m", "m", "a", "r", "y">> }
                      /\ use_cases.v[1].v[<<"u", "s", "e", "_", "c", "a", "s", "e", "_", "s", "u", "m", "m", "a", "r", "y">>] = JStr(llm_text)
    /\ llm_text # NoStr => use_cases # NoJson

\* a reply in a markdown fence, ending in whitespace, was kept as it is
C6_Witness ==
    /\ pc = "done"
    /\ llm_text = <<"~", "~", "~", "j", "s", "o", "n", "\n", "[", "{", "\"", "u", "s", "e", "_", "c", "a", "s", "e", "_", "s", "u", "m", "m", "a", "r", "y", "\"", ":", "\"", "C", " ", "D", "\"", "}", "]", "\n", "~", "~", "~">>
    /\ use_cases.v[1].v[<<"u", "s", "e", "_", "c", "a", "s", "e", "_", "s", "u", "m", "m", "a", "r", "y">>].v = llm_text

\* urls is one URL: the prefix, then the title with "+" for each space
IsSearchUrl(urls, prefix, title) ==
    /\ Len(urls) = 1
    /\ Len(urls[1]) = Len(prefix) + Len(title)
    /\ SubSeq(urls[1], 1, Len(prefix)) = prefix
    /\ \A k \in 1..Len(title) :
          urls[1][Len(prefix) + k] = IF title[k] = " " THEN "+" ELSE title[k]

\* the title of a record: use_case, else use_case_summary, else "general"
TitleOf(record) ==
    IF <<"u", "s", "e", "_", "c", "a", "s", "e">> \in DOMAIN record.v THEN record.v[<<"u", "s", "e", "_", "c", "a", "s", "e">>].v
    ELSE IF <<"u", "s", "e", "_", "c", "a", "s", "e", "_", "s", "u", "m", "m", "a", "r", "y">> \in DOMAIN record.v THEN record.v[<<"u", "s", "e", "_", "c", "a", "s", "e", "_", "s", "u", "m", "m", "a", "r", "y">>].v
    ELSE <<"g", "e", "n", "e", "r", "a", "l">>

\* the records of the use cases a returned bundle was built from
BundledRecords == IF use_cases.t = "arr" THEN use_cases.v ELSE <<>>

\* C7: the bundle find_resources returns maps the title of every record
\* (use_case, else use_case_summary, else "general") to one dataset URL, one
\* model URL and one github URL: the fixed prefix followed by the title with
\* every space replaced by "+"; and it has no other key.
C7_TitleAndLinks ==
    pc = "done" =>
        LET bundle == results.resource_assets IN
        /\ DOMAIN bundle = {TitleOf(BundledRecords[i]) : i \in 1..Len(BundledRecords)}
        /\ \A i \in 1..Len(BundledRecords) :
              LET title == TitleOf(BundledRecords[i]) IN
              /\ DOMAIN bundle[title] = {"datasets", "models", "github_projects"}
              /\ IsSearchUrl(bundle[title].datasets, <<"h", "t", "t", "p", "s", ":", "/", "/", "k", "a", "g", "g", "l", "e", ".", "c", "o", "m", "/", "s", "e", "a", "r", "c", "h", "?", "q", "=">>, title)
              /\ IsSearchUrl(bundle[title].models,
                             <<"h", "t", "t", "p", "s", ":", "/", "/", "h", "u", "g", "g", "i", "n", "g", "f", "a", "c", "e", ".", "c", "o", "/", "m", "o", "d", "e", "l", "s", "?", "s", "e", "a", "r", "c", "h", "=">>, title)
              /\ IsSearchUrl(bundle[title].github_projects,
                             <<"h", "t", "t", "p", "s", ":", "/", "/", "g", "i", "t", "h", "u", "b", ".", "c", "o", "m", "/", "s", "e", "a", "r", "c", "h", "?", "q", "=">>, title)

\* a bundle for a record with both fields and a record with neither
C7_Witness ==
    /\ pc = "done"
    /\ DOMAIN results.resource_assets = { <<"E", " ", "F">>, <<"g", "e", "n", "e", "r", "a", "l">> }
    /\ results.resource_assets[<<"E", " ", "F">>].datasets = << <<"h", "t", "t", "p", "s", ":", "/", "/", "k", "a", "g", "g", "l", "e", ".", "c", "o", "m", "/", "s", "e", "a", "r", "c", "h", "?", "q", "=", "E", "+", "F">> >>

\* C8: find_resources completes on every value _parse_response returns.
C8_LinkerAlwaysSucceeds == error # "find_resources"

\* C9: a press of the button with an empty company name constructs nothing,
\* issues no call and only shows the warning; nothing runs on an empty name.
C9_EmptyNameOnlyWarns ==
    /\ pc = "warned" =>
          /\ company_name = <<>>
          /\ warning
          /\ ~constructed
          /\ calls = NoCalls
          /\ trace = <<>>
          /\ ~results.present
    /\ company_name = <<>> => pc \in {"idle", "warned"} /\ ~constructed /\ calls = NoCalls
    /\ warning => pc = "warned"

\* the warning is shown
C9_Witness == pc = "warned" /\ warning /\ company_name = <<>>

\* the events of a run in which the three steps succeed
FullTrace ==
    << Call("research_company"), Return("research_company"),
       Call("generate_use_cases"), Return("generate_use_cases"),
       Call("find_resources"), Return("find_resources") >>

Occurs(event) == \E i \in 1..Len(trace) : trace[i] = event

\* C10: run calls research_company, generate_use_cases and find_resources in
\* this order, each after the one before has returned; the run stops at the
\* first step that raises; a result exists exactly when all three returned;
\* when the use-case call fails find_resources is not called and there is no
\* result.
C10_StrictSequence ==
    /\ \E n \in 0..Len(FullTrace) :
          \/ trace = SubSeq(FullTrace, 1, n)
          \/ /\ n >= 1
             /\ FullTrace[n][1] = "return"
             /\ trace = Append(SubSeq(FullTrace, 1, n - 1), Raise(FullTrace[n][2]))
    /\ results.present <=> trace = FullTrace
    /\ error = "generate_content" =>
          /\ Occurs(Raise("generate_use_cases"))
          /\ ~Occurs(Call("find_resources"))
          /\ ~results.present
          /\ pc = "aborted"

\* the use-case call failed after research_company returned
C10_Witness ==
    /\ pc = "aborted"
    /\ error = "generate_content"
    /\ trace = << Call("research_company"), Return("research_company"),
                  Call("generate_use_cases"), Raise("generate_use_cases") >>

=============================================================================
